---- MODULE Spec2Model ----
(***************************************************************************)
(* A model of qutip_qoc: the TimeInterval time grid (time.py) and the JOPT *)
(* objective (jopt.py): generator preparation, construction, the           *)
(* infidelity call and the custom derivative rule of abs.                  *)
(*                                                                         *)
(* Python values are records of one shape, [t, n, d, s]:                   *)
(*   t  the type tag: "None", "num", "list", "ndarray", "omitted" (an      *)
(*      argument the caller left out) or the name of a raised exception;   *)
(*   n/d a number as a reduced fraction (d > 0);                           *)
(*   s  the elements of a sequence, each a fraction <<n, d>>.              *)
(***************************************************************************)
EXTENDS Integers, Sequences, FiniteSets, TLC

VARIABLES args, ti, last, hist, inp, pc, jopt, call, absio

vars == <<args, ti, last, hist, inp, pc, jopt, call, absio>>

-----------------------------------------------------------------------------
(* Bounds of the model *)

\* longest explicit tslots sequence given to TimeInterval
MaxLen == 2
\* largest instant / total time given to TimeInterval
MaxTime == 2
\* largest slot count given explicitly to TimeInterval
MaxSlots == 3

\* most control terms of an objective, and most control-parameter specifications
MaxCtrl == 2
\* longest guess vector of one control
MaxGuess == 2
\* longest parameter vector given to infidelity and gradient
MaxParams == 5

\* largest real or imaginary part of the input x of abs
MaxPart == 4
\* largest real or imaginary part of the tangent t
MaxTangent == 1

\* time.py:27, the default of n_tslots
DefaultNTslots == 100

-----------------------------------------------------------------------------
(* Python values *)

Val(t, n, d, s) == [t |-> t, n |-> n, d |-> d, s |-> s]

None == Val("None", 0, 1, <<>>)

Omitted == Val("omitted", 0, 1, <<>>)

Raise(e) == Val(e, 0, 1, <<>>)

Exceptions == {"ValueError", "TypeError", "IndexError", "UnboundLocalError"}

IsRaise(v) == v.t \in Exceptions

Abs(i) == IF i < 0 THEN -i ELSE i

RECURSIVE GCD(_, _)
GCD(a, b) == IF b = 0 THEN a ELSE GCD(b, a % b)

\* the fraction n/d, d # 0, reduced and with a positive denominator
Frac(n, d) ==
    LET g == GCD(Abs(n), Abs(d))
        sg == IF d < 0 THEN -1 ELSE 1
    IN  <<(sg * n) \div g, (sg * d) \div g>>

Num(n, d) == LET f == Frac(n, d) IN Val("num", f[1], f[2], <<>>)

PyInt(i) == Val("num", i, 1, <<>>)

List(s) == Val("list", 0, 1, s)

NdArray(s) == Val("ndarray", 0, 1, s)

IsSeq(v) == v.t \in {"list", "ndarray"}

\* Python's bool(v); "ValueError" where numpy refuses (an array of more
\* than one element has no truth value)
Truth(v) ==
    CASE v.t = "None" -> "False"
      [] v.t = "num" -> IF v.n = 0 THEN "False" ELSE "True"
      [] v.t = "list" -> IF Len(v.s) = 0 THEN "False" ELSE "True"
      [] v.t = "ndarray" ->
            IF Len(v.s) = 0 THEN "False"
            ELSE IF Len(v.s) = 1
                 THEN (IF v.s[1][1] = 0 THEN "False" ELSE "True")
                 ELSE "ValueError"
      [] OTHER -> "True"

\* numpy.linspace(0.0, stop, num), num >= 0: num points, step stop/(num-1),
\* the last one set to stop; a single point is the start
linspace(stop, num) ==
    NdArray([i \in 1..num |->
                IF num = 1 THEN <<0, 1>>
                ELSE Frac((i - 1) * stop.n, (num - 1) * stop.d)])

-----------------------------------------------------------------------------
(* time.py: TimeInterval *)

\* an argument left out takes its default
Arg(a, default) == IF a.t = "omitted" THEN default ELSE a

TimeInterval(a) ==
    [_tslots |-> Arg(a.tslots, None),
     _evo_time |-> Arg(a.evo_time, None),
     _n_tslots |-> Arg(a.n_tslots, PyInt(DefaultNTslots))]

\* every accessor yields the object after the access and what it returned
\* or raised
Ret(self, out) == [self |-> self, out |-> out]

n_tslots(self) ==
    IF self._n_tslots.t = "None"
    THEN CASE Truth(self._tslots) = "True" ->
                 LET s1 == [self EXCEPT !._n_tslots = PyInt(Len(self._tslots.s))]
                 IN  Ret(s1, s1._n_tslots)
           [] Truth(self._tslots) = "False" -> Ret(self, Raise("ValueError"))
           [] OTHER -> Ret(self, Raise("ValueError"))
    ELSE Ret(self, self._n_tslots)

\* tslots without the "is None" guard: the grid is derived again on every read
tslots_underived(self) ==
    LET r == n_tslots(self)
    IN  IF IsRaise(r.out) THEN r
        ELSE IF Truth(r.self._evo_time) = "True"
             THEN LET s1 == [r.self EXCEPT
                               !._tslots = linspace(r.self._evo_time, r.out.n)]
                  IN  Ret(s1, s1._tslots)
             ELSE Ret(r.self, r.self._tslots)

tslots(self) ==
    IF self._tslots.t = "None"
    THEN LET r == n_tslots(self)
         IN  IF IsRaise(r.out) THEN r
             ELSE IF Truth(r.self._evo_time) = "True"
                  THEN LET s1 == [r.self EXCEPT
                                    !._tslots = linspace(r.self._evo_time, r.out.n)]
                       IN  Ret(s1, s1._tslots)
                  ELSE Ret(r.self, r.self._tslots)
    ELSE Ret(self, self._tslots)

evo_time(self) ==
    IF self._evo_time.t = "None"
    THEN LET r == tslots(self)
         IN  IF IsRaise(r.out) THEN r
             ELSE IF ~IsSeq(r.out) THEN Ret(r.self, Raise("TypeError"))
             ELSE IF Len(r.out.s) = 0 THEN Ret(r.self, Raise("IndexError"))
             ELSE LET e == r.out.s[Len(r.out.s)]
                      s1 == [r.self EXCEPT !._evo_time = Val("num", e[1], e[2], <<>>)]
                  IN  Ret(s1, s1._evo_time)
    ELSE Ret(self, self._evo_time)

-----------------------------------------------------------------------------
(* The life of one TimeInterval: constructed once, then read any number of *)
(* times in any order.                                                     *)

Accessors == {"tslots", "evo_time", "n_tslots"}

\* one read of an attribute
Read(acc, self) ==
    CASE acc = "tslots" -> tslots(self)
      [] acc = "evo_time" -> evo_time(self)
      [] OTHER -> n_tslots(self)

Instants == {<<k, 1>> : k \in 0..MaxTime}

SeqsIn == UNION {[1..n -> Instants] : n \in 0..MaxLen}

TslotsIn == {Omitted} \cup {List(s) : s \in SeqsIn} \cup {NdArray(s) : s \in SeqsIn}

EvoTimeIn == {Omitted} \cup {PyInt(k) : k \in 0..MaxTime}

NTslotsIn == {Omitted, None} \cup {PyInt(k) : k \in 0..MaxSlots}

ArgsIn == [tslots : TslotsIn, evo_time : EvoTimeIn, n_tslots : NTslotsIn]

NoRead == [acc |-> "none", out |-> None]

JoptIdle ==
    /\ inp = [issuper |-> FALSE, nctrl |-> 0, guesses |-> <<>>, nguess |-> 0,
              time_guess |-> FALSE, fid_type |-> "absent"]
    /\ pc = "idle"
    /\ jopt = [H |-> <<>>, evo_time |-> None, var_t |-> FALSE,
               fid_type |-> "unset", solver |-> "unset", err |-> "none"]
    /\ call = [fn |-> "none", params |-> <<>>, solved |-> FALSE, solver |-> "none",
               t0 |-> None, t1 |-> None, ctrl_args |-> <<>>, out |-> "none"]

AbsIdle == absio = [x |-> <<0, 0>>, t |-> <<0, 0>>, abs_x |-> None, res |-> None]

Init ==
    /\ args \in ArgsIn
    /\ ti = TimeInterval(args)
    /\ last = NoRead
    /\ hist = {}
    /\ JoptIdle
    /\ AbsIdle

ReadTslots ==
    LET r == Read("tslots", ti)
    IN  /\ ti' = r.self
        /\ last' = [acc |-> "tslots", out |-> r.out]
        /\ hist' = hist \cup {"tslots"}
        /\ UNCHANGED <<args, inp, pc, jopt, call, absio>>

ReadEvoTime ==
    LET r == Read("evo_time", ti)
    IN  /\ ti' = r.self
        /\ last' = [acc |-> "evo_time", out |-> r.out]
        /\ hist' = hist \cup {"evo_time"}
        /\ UNCHANGED <<args, inp, pc, jopt, call, absio>>

ReadNTslots ==
    LET r == Read("n_tslots", ti)
    IN  /\ ti' = r.self
        /\ last' = [acc |-> "n_tslots", out |-> r.out]
        /\ hist' = hist \cup {"n_tslots"}
        /\ UNCHANGED <<args, inp, pc, jopt, call, absio>>

\* __call__ returns self.tslots
CallTimeInterval ==
    LET r == tslots(ti)
    IN  /\ ti' = r.self
        /\ last' = [acc |-> "__call__", out |-> r.out]
        /\ hist' = hist \cup {"tslots"}
        /\ UNCHANGED <<args, inp, pc, jopt, call, absio>>

Next == ReadTslots \/ ReadEvoTime \/ ReadNTslots \/ CallTimeInterval

Spec == Init /\ [][Next]_vars

-----------------------------------------------------------------------------
(* Claims about TimeInterval, checked under Spec *)

AsNum(f) == Val("num", f[1], f[2], <<>>)

\* a - b of two fractions
FracSub(a, b) == Frac(a[1] * b[2] - b[1] * a[2], a[2] * b[2])

SequenceOnly ==
    /\ IsSeq(args.tslots)
    /\ Len(args.tslots.s) >= 1
    /\ args.evo_time = Omitted
    /\ args.n_tslots = Omitted

\* C3: a TimeInterval constructed with only an explicit (non-empty)
\* sequence, evo_time absent and n_tslots left at its default, returns
\* evo_time = the sequence's last element and n_tslots = its length.
C3_SequenceOnly ==
    SequenceOnly =>
        /\ last.acc = "evo_time" =>
              last.out = AsNum(args.tslots.s[Len(args.tslots.s)])
        /\ last.acc = "n_tslots" => last.out = PyInt(Len(args.tslots.s))

TimeAndCount ==
    /\ args.tslots = Omitted
    /\ args.evo_time.t = "num"
    /\ args.n_tslots.t = "num"

\* C4: constructed with (evo_time = T, n_tslots = N) and no sequence, tslots
\* is a sequence of exactly N evenly spaced instants from 0 to T, for every
\* T, T = 0 included. (Stated for N >= 2, the slot counts for which a grid
\* can have both end points.)
C4_EvenGrid ==
    (TimeAndCount /\ args.n_tslots.n >= 2 /\ last.acc = "tslots") =>
        /\ IsSeq(last.out)
        /\ Len(last.out.s) = args.n_tslots.n
        /\ last.out.s[1] = <<0, 1>>
        /\ last.out.s[Len(last.out.s)] = <<args.evo_time.n, 1>>
        /\ \A i \in 1..(Len(last.out.s) - 1) :
              FracSub(last.out.s[i + 1], last.out.s[i])
                  = Frac(args.evo_time.n, args.n_tslots.n - 1)

\* C6: reading n_tslots raises ValueError when neither a sequence nor a slot
\* count was supplied; reading evo_time raises an error when neither a
\* sequence nor a total time was supplied.
C6_Underivable ==
    /\ (args.tslots = Omitted /\ args.n_tslots = Omitted /\ last.acc = "n_tslots")
          => last.out = Raise("ValueError")
    /\ (args.tslots = Omitted /\ args.evo_time = Omitted /\ last.acc = "evo_time")
          => IsRaise(last.out)

\* C8: every accessor gives the same outcome (the same value or the same
\* error) on every read, whichever accessors were read before it: in every
\* reachable state a read of any accessor gives what it gives on the object
\* as constructed, and so did the read just made.
C8_ReadsAgree ==
    /\ \A a \in Accessors : Read(a, ti).out = Read(a, TimeInterval(args)).out
    /\ last.acc \in Accessors =>
          last.out = Read(last.acc, TimeInterval(args)).out

\* C8 witness: all three accessors have been read, reads have filled the
\* caches (the object differs from the one constructed), and the read just
\* made was of tslots after evo_time had been derived from it.
C8_Witness ==
    /\ hist = Accessors
    /\ ti # TimeInterval(args)
    /\ args.evo_time = Omitted
    /\ ti._evo_time.t = "num"
    /\ last.acc = "tslots"

-----------------------------------------------------------------------------
(* jopt.py: JOPT *)

Min(a, b) == IF a < b THEN a ELSE b

\* Python's p[lower:upper] for 0 <= lower <= upper: clipped to the sequence
PySlice(p, lower, upper) == SubSeq(p, Min(lower, Len(p)) + 1, Min(upper, Len(p)))

\* helper(control, lower, upper): the coefficient lambda t, p:
\* control(t, p[lower:upper]), kept as the bounds it closes over
helper(control, lower, upper) ==
    [control |-> control, lower |-> lower, upper |-> upper]

\* what the wrapped coefficient passes to its control function
CtrlArg(term, p) == PySlice(p, term.lower, term.upper)

RECURSIVE SumSeq(_)
SumSeq(s) == IF s = <<>> THEN 0 ELSE s[1] + SumSeq(Tail(s))

\* the loop over zip(Hc_lst, control_parameters.values()) from its k-th
\* step, idx the running offset
RECURSIVE prepare_loop(_, _, _, _)
prepare_loop(nctrl, guesses, k, idx) ==
    IF k > nctrl \/ k > Len(guesses) THEN <<>>
    ELSE LET M == guesses[k]
         IN  <<helper(k, idx, idx + M)>>
                 \o prepare_loop(nctrl, guesses, k + 1, idx + M)

\* the loop with the lambda written in its body: every coefficient reads idx
\* and M when called, after the loop has ended
prepare_generator_late(nctrl, guesses) ==
    LET n == Min(nctrl, Len(guesses))
        total == SumSeq(SubSeq(guesses, 1, n))
    IN  [k \in 1..n |-> helper(k, total, total + guesses[n])]

\* the control terms of the generator H (the drift takes no parameters)
prepare_generator(nctrl, guesses) == prepare_loop(nctrl, guesses, 1, 0)

\* the branches swapped
choose_solver_swapped(issuper, fid_type) ==
    IF issuper
    THEN [fid_type |-> IF fid_type = "absent" THEN "PSU" ELSE fid_type,
          solver |-> "SESolver"]
    ELSE [fid_type |-> IF fid_type = "absent" THEN "TRACEDIFF" ELSE fid_type,
          solver |-> "MESolver"]

\* "choose solver and fidelity type according to problem"
choose_solver(issuper, fid_type) ==
    IF issuper
    THEN [fid_type |-> IF fid_type = "absent" THEN "TRACEDIFF" ELSE fid_type,
          solver |-> "MESolver"]
    ELSE [fid_type |-> IF fid_type = "absent" THEN "PSU" ELSE fid_type,
          solver |-> "SESolver"]

\* the configured time whatever var_t says
end_time_fixed(self, params) == self.evo_time

\* "adjust integration time-interval, if time is parameter"
end_time(self, params) ==
    IF self.var_t = FALSE THEN self.evo_time
    ELSE IF Len(params) = 0 THEN Raise("IndexError")
    ELSE PyInt(params[Len(params)])

\* the value _infid returns, by the branch of fid_type it takes; a fid_type
\* that is none of the three leaves infid unbound
fidelity(fid_type) ==
    CASE fid_type = "TRACEDIFF" -> "Re(norm_fac*tr(diff_dag*diff)/2)"
      [] fid_type = "PSU" -> "1-abs(g)"
      [] fid_type = "SU" -> "1-Re(g)"
      [] OTHER -> "UnboundLocalError"

\* _infid(params), called as fn: the end time, the solve, the fidelity
infid(self, fn, params) ==
    LET e == end_time(self, params)
    IN  IF IsRaise(e)
        THEN [fn |-> fn, params |-> params, solved |-> FALSE, solver |-> "none",
              t0 |-> None, t1 |-> None, ctrl_args |-> <<>>, out |-> e.t]
        ELSE [fn |-> fn, params |-> params, solved |-> TRUE,
              solver |-> self.solver, t0 |-> PyInt(0), t1 |-> e,
              ctrl_args |-> [k \in 1..Len(self.H) |-> CtrlArg(self.H[k], params)],
              out |-> fidelity(self.fid_type)]

-----------------------------------------------------------------------------
(* The life of one JOPT: constructed from its inputs, then infidelity and   *)
(* gradient called any number of times by the minimizer.                    *)

FidTypeIn == {"absent", "TRACEDIFF", "PSU", "SU", "FOO"}

GuessesIn == UNION {[1..n -> 0..MaxGuess] : n \in 0..MaxCtrl}

\* guess_params is as long as the guesses together, or one longer (the total
\* time), or two longer
InpIn ==
    {[issuper |-> su, nctrl |-> nc, guesses |-> g, nguess |-> SumSeq(g) + extra,
      time_guess |-> tg, fid_type |-> f] :
        su \in BOOLEAN, nc \in 0..MaxCtrl, g \in GuessesIn, extra \in 0..2,
        tg \in BOOLEAN, f \in FidTypeIn}

\* the time intervals handed to JOPT: TimeInterval(evo_time=T) and
\* TimeInterval()
JoptArgsIn ==
    {a \in ArgsIn : /\ a.tslots = Omitted
                    /\ a.n_tslots = Omitted
                    /\ a.evo_time \in {Omitted, PyInt(MaxTime)}}

Ramp(n) == [i \in 1..n |-> i]

ParamsIn == {Ramp(n) : n \in 0..MaxParams}

JoptNew == [H |-> <<>>, evo_time |-> None, var_t |-> FALSE,
            fid_type |-> "unset", solver |-> "unset", err |-> "none"]

NoCall == [fn |-> "none", params |-> <<>>, solved |-> FALSE, solver |-> "none",
           t0 |-> None, t1 |-> None, ctrl_args |-> <<>>, out |-> "none"]

InitJOPT ==
    /\ inp \in InpIn
    /\ args \in JoptArgsIn
    /\ ti = TimeInterval(args)
    /\ last = NoRead
    /\ hist = {}
    /\ pc = "new"
    /\ jopt = JoptNew
    /\ call = NoCall
    /\ AbsIdle

\* JOPT.__init__
Construct ==
    /\ pc = "new"
    /\ LET H == prepare_generator(inp.nctrl, inp.guesses)
           r == evo_time(ti)
           c == choose_solver(inp.issuper, inp.fid_type)
       IN  /\ ti' = r.self
           /\ IF IsRaise(r.out)
              THEN /\ pc' = "failed"
                   /\ jopt' = [jopt EXCEPT !.H = H, !.err = r.out.t]
              ELSE /\ pc' = "ready"
                   /\ jopt' = [H |-> H, evo_time |-> r.out,
                               var_t |-> inp.time_guess,
                               fid_type |-> c.fid_type, solver |-> c.solver,
                               err |-> "none"]
    /\ UNCHANGED <<args, last, hist, inp, call, absio>>

\* self.infidelity(params)
Infidelity ==
    /\ pc = "ready"
    /\ \E params \in ParamsIn : call' = infid(jopt, "infidelity", params)
    /\ UNCHANGED <<args, ti, last, hist, inp, pc, jopt, absio>>

\* self.gradient(params): _infid differentiated
Gradient ==
    /\ pc = "ready"
    /\ \E params \in ParamsIn : call' = infid(jopt, "gradient", params)
    /\ UNCHANGED <<args, ti, last, hist, inp, pc, jopt, absio>>

NextJOPT == Construct \/ Infidelity \/ Gradient

SpecJOPT == InitJOPT /\ [][NextJOPT]_vars

-----------------------------------------------------------------------------
(* Claims about JOPT, checked under SpecJOPT *)

\* offset_k = M_1 + ... + M_(k-1), from the control-parameter specifications
Offset(k) == SumSeq(SubSeq(inp.guesses, 1, k - 1))

\* the 0-based positions of params[lo:hi] in a vector of length n
Positions(lo, hi, n) == {i \in 0..(n - 1) : lo <= i /\ i < hi}

\* C1: the k-th control term's coefficient function is called with exactly
\* params[offset_k : offset_k + M_k]; the slices of different controls are
\* pairwise disjoint and in control order; changing an entry of params
\* inside control j's slice never changes the argument of control k # j.
C1_Routing ==
    /\ call.solved =>
          \A k \in 1..Len(call.ctrl_args) :
              LET P == Positions(Offset(k), Offset(k) + inp.guesses[k],
                                 Len(call.params))
              IN  /\ Len(call.ctrl_args[k]) = Cardinality(P)
                  /\ \A i \in 1..Len(call.ctrl_args[k]) :
                        /\ Offset(k) + i - 1 \in P
                        /\ call.ctrl_args[k][i] = call.params[Offset(k) + i]
    /\ pc = "ready" =>
          \A j, k \in 1..Len(jopt.H) :
              j < k =>
                  /\ jopt.H[j].upper <= jopt.H[k].lower
                  /\ \A p \in ParamsIn :
                        Positions(jopt.H[j].lower, jopt.H[j].upper, Len(p))
                          \cap Positions(jopt.H[k].lower, jopt.H[k].upper, Len(p))
                          = {}
    /\ pc = "ready" =>
          \A p \in ParamsIn : \A i \in 1..Len(p) :
              \A j, k \in 1..Len(jopt.H) :
                  (j # k /\ jopt.H[j].lower <= i - 1 /\ i - 1 < jopt.H[j].upper)
                      => CtrlArg(jopt.H[k], [p EXCEPT ![i] = 0])
                             = CtrlArg(jopt.H[k], p)

\* C1 witness: a solve with two controls, each given a non-empty slice, the
\* second one starting past the first
C1_Witness ==
    /\ call.solved
    /\ Len(call.ctrl_args) = 2
    /\ Len(call.ctrl_args[1]) = 2
    /\ Len(call.ctrl_args[2]) = 2
    /\ call.ctrl_args[2][1] = 3

\* C2: a superoperator drift selects the open-system solver and, with no
\* fid_type option, TRACEDIFF; a plain-operator drift selects the
\* closed-system solver and, with no fid_type option, PSU; a given fid_type
\* is used as given and leaves the solver choice alone.
C2_SolverChoice ==
    pc = "ready" =>
        /\ inp.issuper => jopt.solver = "MESolver"
        /\ ~inp.issuper => jopt.solver = "SESolver"
        /\ (inp.issuper /\ inp.fid_type = "absent") => jopt.fid_type = "TRACEDIFF"
        /\ (~inp.issuper /\ inp.fid_type = "absent") => jopt.fid_type = "PSU"
        /\ inp.fid_type # "absent" => jopt.fid_type = inp.fid_type

\* C2 witness: a JOPT constructed on a superoperator drift with a fid_type
\* given, and used for a solve
C2_Witness ==
    /\ pc = "ready"
    /\ inp.issuper
    /\ inp.fid_type = "SU"
    /\ call.solved
    /\ call.solver = "MESolver"

KnownFidTypes == {"TRACEDIFF", "PSU", "SU"}

\* C5: a fid_type option that is none of TRACEDIFF, PSU, SU makes the
\* construction fail, so that no solve is ever started with it.
C5_UnknownFidType ==
    (inp.fid_type # "absent" /\ inp.fid_type \notin KnownFidTypes) =>
        (pc # "ready" /\ ~call.solved)

Bit(b) == IF b THEN 1 ELSE 0

\* C7: construction fails when the number of control terms differs from the
\* number of control-parameter specifications, or the guess parameter
\* vector is not as long as the guesses together (+1 with a free total time).
C7_LayoutChecked ==
    pc = "ready" =>
        /\ inp.nctrl = Len(inp.guesses)
        /\ inp.nguess = SumSeq(inp.guesses) + Bit(inp.time_guess)

\* C9: _infid integrates from 0 to the evolution time configured at
\* construction when time_options has no "guess", and to the last entry of
\* params when it has; then, with params of length (sum of guess lengths)+1,
\* that last entry lies in no control's slice.
C9_EndTime ==
    call.solved =>
        /\ call.t0 = PyInt(0)
        /\ ~inp.time_guess => call.t1 = evo_time(TimeInterval(args)).out
        /\ inp.time_guess =>
              /\ Len(call.params) > 0
              /\ call.t1 = PyInt(call.params[Len(call.params)])
              /\ Len(call.params) = SumSeq(inp.guesses) + 1 =>
                    \A k \in 1..Len(jopt.H) :
                        Len(call.params) - 1
                            \notin Positions(jopt.H[k].lower, jopt.H[k].upper,
                                             Len(call.params))

\* C9 witness: total time is free, params holds both controls' guesses and
\* the time, and the solve ran to that time
C9_Witness ==
    /\ call.solved
    /\ inp.time_guess
    /\ Len(jopt.H) = 2
    /\ SumSeq(inp.guesses) = 4
    /\ Len(call.params) = 5
    /\ call.t1 = PyInt(5)

-----------------------------------------------------------------------------
(* jopt.py: abs and its custom derivative rule. A complex number is a pair *)
(* <<re, im>> of integers; the inputs x are those of integer magnitude, so *)
(* that |x| is computed exactly. Floating-point division by zero raises    *)
(* nothing: it gives nan (0/0) or an infinity.                             *)

NaN == Val("nan", 0, 1, <<>>)

Inf(sign) == Val("inf", sign, 1, <<>>)

conj(x) == <<x[1], -x[2]>>

multiply(x, y) == <<x[1] * y[1] - x[2] * y[2], x[1] * y[2] + x[2] * y[1]>>

real(x) == x[1]

\* the integer square root
Isqrt(n) == CHOOSE r \in 0..n : r * r <= n /\ n < (r + 1) * (r + 1)

\* jnp.abs of a complex number
abs(x) == Isqrt(x[1] * x[1] + x[2] * x[2])

\* a / b in floating point, a and b integers
divide(a, b) ==
    IF b # 0 THEN Num(a, b)
    ELSE IF a = 0 THEN NaN
    ELSE Inf(IF a > 0 THEN 1 ELSE -1)

\* jnp.where on scalars: both branches are computed, one is selected
where(cond, a, b) == IF cond THEN a ELSE b

\* the rule without the guard against the zero magnitude
abs_jvp_unguarded(x, t) ==
    LET abs_x == abs(x)
    IN  [abs_x |-> PyInt(abs_x),
         res |-> divide(real(multiply(conj(x), t)), abs_x)]

\* abs_jvp(primals, tangents) with primals = (x,), tangents = (t,)
abs_jvp(x, t) ==
    LET abs_x == abs(x)
        res == where(abs_x = 0, PyInt(0),
                     divide(real(multiply(conj(x), t)), abs_x))
    IN  [abs_x |-> PyInt(abs_x), res |-> res]

Parts == (0 - MaxPart)..MaxPart

\* the inputs of integer magnitude
ComplexIn ==
    {x \in Parts \X Parts :
        \E r \in 0..(2 * MaxPart) : r * r = x[1] * x[1] + x[2] * x[2]}

TangentIn == ((0 - MaxTangent)..MaxTangent) \X ((0 - MaxTangent)..MaxTangent)

TimeIdle ==
    /\ args = [tslots |-> Omitted, evo_time |-> Omitted, n_tslots |-> Omitted]
    /\ ti = TimeInterval(args)
    /\ last = NoRead
    /\ hist = {}

InitAbs ==
    /\ TimeIdle
    /\ JoptIdle
    /\ AbsIdle

\* abs(x), as in infid = 1 - abs(g)
AbsValue ==
    /\ \E x \in ComplexIn :
          absio' = [x |-> x, t |-> <<0, 0>>, abs_x |-> PyInt(abs(x)), res |-> None]
    /\ UNCHANGED <<args, ti, last, hist, inp, pc, jopt, call>>

\* the derivative of abs at x in the direction t, by the registered rule
AbsJvp ==
    /\ \E x \in ComplexIn, t \in TangentIn :
          LET r == abs_jvp(x, t)
          IN  absio' = [x |-> x, t |-> t, abs_x |-> r.abs_x, res |-> r.res]
    /\ UNCHANGED <<args, ti, last, hist, inp, pc, jopt, call>>

NextAbs == AbsValue \/ AbsJvp

SpecAbs == InitAbs /\ [][NextAbs]_vars

-----------------------------------------------------------------------------
(* Claim about abs_jvp, checked under SpecAbs *)

====
